---------------------------- MODULE Spec2Model ----------------------------
(***************************************************************************)
(* A model of the pdf-ocr repository: the two upload endpoints of api.py   *)
(* (POST /extract, POST /extract-csv), the script entry point ocr_pdf of   *)
(* main.py, and the text functions they are built from.                    *)
(*                                                                         *)
(* A text is a sequence of one-character strings.  The rasterizer, the     *)
(* text recognizer, the remote completion service and pandas are external: *)
(* what they return or raise is a nondeterministic choice of the action    *)
(* that calls them.                                                        *)
(***************************************************************************)
EXTENDS Integers, Sequences, FiniteSets, TLC

VARIABLES
    mode,         \* "extract" | "extract-csv" | "script" | "pure": the entry point
    filename,     \* file.filename of the upload
    doc,          \* the document: what the recognizer reads on each page
    pc,           \* position of the handler
    page_num,     \* number of pages the OCR loop has completed
    full_text,    \* accumulator of ocr_pdf_from_bytes / ocr_pdf
    pages_data,   \* accumulator of table previews (ocr_pdf)
    remote,       \* what the remote completion call did
    content,      \* the completion text, choices[0].message.content
    json_str,     \* the text handed to json.loads
    data,         \* the outcome of json.loads and the isinstance check
    status,       \* HTTP status of the response, 0 while there is none
    body,         \* the response body
    result,       \* what ocr_pdf returned or raised
    fail,         \* the first failure of the run: [kind, page]
    trace,        \* log of the steps taken, in order
    arg,          \* input of a text function applied on its own
    res           \* its output

vars == <<mode, filename, doc, pc, page_num, full_text, pages_data, remote,
          content, json_str, data, status, body, result, fail, trace, arg, res>>

---------------------------------------------------------------------------
(* Bounds of the model. *)

\* pages of a document: 0..MaxPages
MaxPages == 2
\* length of the raw page texts the normalizer is applied to on its own
MaxLen == 5
\* number of tokens of the lines the table heuristic is applied to on its own
MaxTokens == 7

---------------------------------------------------------------------------
(* Texts. *)

\* the characters matched by \s and removed by str.strip() that the model uses
Whitespace == {" ", "\t", "\n"}

\* the characters matched by \d that the model uses
Digit == {"0", "1", "2", "3", "4", "5", "6", "7", "8", "9"}

\* all texts over alphabet A of length at most n
TextsUpTo(A, n) == UNION {[1..k -> A] : k \in 0..n}

\* t[lo..hi], empty when hi < lo
Slice(t, lo, hi) == IF hi < lo THEN <<>> ELSE SubSeq(t, lo, hi)

\* p occurs in t at index i
MatchAt(t, i, p) ==
    /\ i >= 1
    /\ i + Len(p) - 1 <= Len(t)
    /\ \A k \in 1..Len(p) : t[i + k - 1] = p[k]

\* str.endswith
EndsWith(s, suffix) ==
    /\ Len(suffix) <= Len(s)
    /\ SubSeq(s, Len(s) - Len(suffix) + 1, Len(s)) = suffix

\* the end of the whitespace run that starts at i: the largest e with t[i..e]
\* all whitespace, i-1 when t[i] is none
RECURSIVE WsRunEnd(_, _)
WsRunEnd(t, i) ==
    IF i <= Len(t) /\ t[i] \in Whitespace THEN WsRunEnd(t, i + 1) ELSE i - 1

\* index of the first character at or after i that is no whitespace, Len(t)+1 if none
SkipWs(t, i) == WsRunEnd(t, i) + 1

\* the start of the whitespace run that ends at i, scanning backwards
RECURSIVE WsRunStart(_, _)
WsRunStart(t, i) ==
    IF i >= 1 /\ t[i] \in Whitespace THEN WsRunStart(t, i - 1) ELSE i + 1

\* str.strip()
Strip(t) ==
    LET a == SkipWs(t, 1)
        b == WsRunStart(t, Len(t)) - 1
    IN  Slice(t, a, b)

\* str.rstrip(), as the lazy group followed by \s* leaves it
RStrip(t) == Slice(t, 1, WsRunStart(t, Len(t)) - 1)

\* the largest j in lo..hi with t[j] a newline, 0 if there is none
RECURSIVE LastNewline(_, _, _)
LastNewline(t, lo, hi) ==
    IF hi < lo THEN 0
    ELSE IF t[hi] = "\n" THEN hi
    ELSE LastNewline(t, lo, hi - 1)

\* re.sub of newline, optional whitespace, newline by two newlines: leftmost
\* matches, the whitespace greedy, from index i on
RECURSIVE CollapseBlankFrom(_, _)
CollapseBlankFrom(t, i) ==
    IF i > Len(t) THEN <<>>
    ELSE IF t[i] = "\n"
         THEN LET j == LastNewline(t, i + 1, WsRunEnd(t, i + 1))
              IN  IF j # 0
                  THEN <<"\n", "\n">> \o CollapseBlankFrom(t, j + 1)
                  ELSE <<t[i]>> \o CollapseBlankFrom(t, i + 1)
         ELSE <<t[i]>> \o CollapseBlankFrom(t, i + 1)

\* step (a) of the cleanup
CollapseBlankLines(t) == CollapseBlankFrom(t, 1)

\* re.sub of every whitespace run by one space, from index i on
RECURSIVE CollapseWsFrom(_, _)
CollapseWsFrom(t, i) ==
    IF i > Len(t) THEN <<>>
    ELSE IF t[i] \in Whitespace
         THEN <<" ">> \o CollapseWsFrom(t, WsRunEnd(t, i) + 1)
         ELSE <<t[i]>> \o CollapseWsFrom(t, i + 1)

\* every whitespace character becomes a space, runs kept
BlankEachWs(t) == [k \in 1..Len(t) |-> IF t[k] \in Whitespace THEN " " ELSE t[k]]

\* step (b) of the cleanup
CollapseWs(t) == CollapseWsFrom(t, 1)

\* the cleanup of one page's recognized text: steps (a), (b), (c)
Normalize(t) == Strip(CollapseWs(CollapseBlankLines(t)))

---------------------------------------------------------------------------
(* Page blocks and page markers. *)

DigitChars == <<"0", "1", "2", "3", "4", "5", "6", "7", "8", "9">>

\* str(n) for a natural number, as the f-string formats page_num
RECURSIVE DecimalStr(_)
DecimalStr(n) ==
    IF n < 10 THEN <<DigitChars[n + 1]>>
    ELSE DecimalStr(n \div 10) \o <<DigitChars[(n % 10) + 1]>>

MarkerHead == <<"-", "-", "-", " ", "P", "a", "g", "e", " ">>
MarkerTail == <<" ", "-", "-", "-">>

\* f"\n--- Page {page_num} ---\n{page_text}\n" numbered from zero
PageBlockFromZero(n, page_text) ==
    <<"\n">> \o MarkerHead \o DecimalStr(n - 1) \o MarkerTail
             \o <<"\n">> \o page_text \o <<"\n">>

\* f"\n--- Page {page_num} ---\n{page_text}\n"
PageBlock(n, page_text) ==
    <<"\n">> \o MarkerHead \o DecimalStr(n) \o MarkerTail
             \o <<"\n">> \o page_text \o <<"\n">>

---------------------------------------------------------------------------
(* The table-line heuristic of the script. *)

\* the end of the run of non-whitespace characters that starts at i
RECURSIVE WordEnd(_, _)
WordEnd(t, i) ==
    IF i <= Len(t) /\ t[i] \notin Whitespace THEN WordEnd(t, i + 1) ELSE i - 1

\* str.split(): the maximal runs of non-whitespace characters, from index i on
RECURSIVE SplitFrom(_, _)
SplitFrom(t, i) ==
    LET a == SkipWs(t, i)
    IN  IF a > Len(t) THEN <<>>
        ELSE <<Slice(t, a, WordEnd(t, a))>> \o SplitFrom(t, WordEnd(t, a) + 1)

SplitWs(t) == SplitFrom(t, 1)

\* str.split("\n"): the pieces between newlines, empty pieces kept
RECURSIVE SplitLinesFrom(_, _, _)
SplitLinesFrom(t, i, start) ==
    IF i > Len(t) THEN <<Slice(t, start, Len(t))>>
    ELSE IF t[i] = "\n"
         THEN <<Slice(t, start, i - 1)>> \o SplitLinesFrom(t, i + 1, i + 1)
         ELSE SplitLinesFrom(t, i + 1, start)

SplitLines(t) == SplitLinesFrom(t, 1, 1)

\* the end of the run of characters of set S that starts at i
RECURSIVE RunEnd(_, _, _)
RunEnd(t, i, S) ==
    IF i <= Len(t) /\ t[i] \in S THEN RunEnd(t, i + 1, S) ELSE i - 1

\* re.search of digits followed by digits and commas, from index i on: the span
\* of the leftmost match,
\* <<0, 0>> when there is none
RECURSIVE DigitSearchFrom(_, _)
DigitSearchFrom(t, i) ==
    IF i > Len(t) THEN <<0, 0>>
    ELSE IF t[i] \in Digit
         THEN <<i, RunEnd(t, RunEnd(t, i, Digit) + 1, Digit \cup {","})>>
         ELSE DigitSearchFrom(t, i + 1)

DigitSearch(t) == DigitSearchFrom(t, 1)

\* the condition of the list comprehension with ">= 5" for "> 5"
IsTableLineAtLeastFive(line) ==
    DigitSearch(line)[1] # 0 /\ Len(SplitWs(line)) >= 5

\* the digit search succeeds and len(line.split()) > 5
IsTableLine(line) ==
    DigitSearch(line)[1] # 0 /\ Len(SplitWs(line)) > 5

\* table_lines of one page
TableLines(page_text) == SelectSeq(SplitLines(page_text), IsTableLine)

---------------------------------------------------------------------------
(* json.loads, for the JSON the model's alphabet can spell: arrays, objects, *)
(* strings without escapes, unsigned integers and null.                      *)

JsonFail == [ok |-> FALSE, next |-> 0, kind |-> "invalid", n |-> 0]

JsonOk(next, kind, n) == [ok |-> TRUE, next |-> next, kind |-> kind, n |-> n]

\* index of the closing quote of the string whose opening quote is at i - 1;
\* 0 when the string is not closed or holds a control character
RECURSIVE StringEnd(_, _)
StringEnd(t, i) ==
    IF i > Len(t) THEN 0
    ELSE IF t[i] = "\"" THEN i
    ELSE IF t[i] \in {"\n", "\t"} THEN 0
    ELSE StringEnd(t, i + 1)

RECURSIVE ParseValue(_, _)
RECURSIVE ParseElements(_, _, _)
RECURSIVE ParseMembers(_, _)

\* the value that starts at index i (no whitespace before it)
ParseValue(t, i) ==
    IF i > Len(t) THEN JsonFail
    ELSE IF t[i] = "["
         THEN LET j == SkipWs(t, i + 1)
              IN  IF j <= Len(t) /\ t[j] = "]" THEN JsonOk(j + 1, "array", 0)
                  ELSE ParseElements(t, j, 0)
    ELSE IF t[i] = "{"
         THEN LET j == SkipWs(t, i + 1)
              IN  IF j <= Len(t) /\ t[j] = "}" THEN JsonOk(j + 1, "object", 0)
                  ELSE ParseMembers(t, j)
    ELSE IF t[i] = "\""
         THEN LET e == StringEnd(t, i + 1)
              IN  IF e = 0 THEN JsonFail ELSE JsonOk(e + 1, "string", 0)
    ELSE IF t[i] = "0" THEN JsonOk(i + 1, "number", 0)
    ELSE IF t[i] \in Digit THEN JsonOk(RunEnd(t, i, Digit) + 1, "number", 0)
    ELSE IF MatchAt(t, i, <<"n", "u", "l", "l">>) THEN JsonOk(i + 4, "null", 0)
    ELSE JsonFail

\* the elements of an array from index j on, n of them already read
ParseElements(t, j, n) ==
    LET v == ParseValue(t, j)
        k == SkipWs(t, v.next)
    IN  IF ~v.ok \/ k > Len(t) THEN JsonFail
        ELSE IF t[k] = "," THEN ParseElements(t, SkipWs(t, k + 1), n + 1)
        ELSE IF t[k] = "]" THEN JsonOk(k + 1, "array", n + 1)
        ELSE JsonFail

\* the members of an object from index j on
ParseMembers(t, j) ==
    IF j > Len(t) \/ t[j] # "\"" THEN JsonFail
    ELSE LET e == StringEnd(t, j + 1)
             c == SkipWs(t, e + 1)
         IN  IF e = 0 \/ c > Len(t) \/ t[c] # ":" THEN JsonFail
             ELSE LET v == ParseValue(t, SkipWs(t, c + 1))
                      k == SkipWs(t, v.next)
                  IN  IF ~v.ok \/ k > Len(t) THEN JsonFail
                      ELSE IF t[k] = "," THEN ParseMembers(t, SkipWs(t, k + 1))
                      ELSE IF t[k] = "}" THEN JsonOk(k + 1, "object", 0)
                      ELSE JsonFail

\* json.loads(t): [valid, kind, n], n the number of elements of an array.
\* JSONDecodeError is valid = FALSE.
JsonLoads(t) ==
    LET v == ParseValue(t, SkipWs(t, 1))
    IN  IF v.ok /\ SkipWs(t, v.next) > Len(t)
        THEN [valid |-> TRUE, kind |-> v.kind, n |-> v.n]
        ELSE [valid |-> FALSE, kind |-> "invalid", n |-> 0]

---------------------------------------------------------------------------
(* The fenced block of the completion text. *)

\* the grave accent U+0060, which a TLA+ string cannot hold
Tick == "U+0060"

FenceOpen == <<Tick, Tick, Tick, "j", "s", "o", "n">>
FenceClose == <<Tick, Tick, Tick>>

NoMatch == [found |-> FALSE, group |-> <<>>]

\* the lazy group, starting at a, and the rest of the pattern: the group grows
\* one character at a time from p = a until optional whitespace and the closing
\* fence match what follows it
RECURSIVE LazyGroup(_, _, _)
LazyGroup(t, a, p) ==
    IF MatchAt(t, SkipWs(t, p), FenceClose)
    THEN [found |-> TRUE, group |-> Slice(t, a, p - 1)]
    ELSE IF p > Len(t) THEN NoMatch
    ELSE LazyGroup(t, a, p + 1)

\* a greedy group in its place: the group shrinks from the end of the text until
\* optional whitespace and the closing fence match what follows it
RECURSIVE GreedyGroup(_, _, _)
GreedyGroup(t, a, p) ==
    IF p < a THEN NoMatch
    ELSE IF MatchAt(t, SkipWs(t, p), FenceClose)
    THEN [found |-> TRUE, group |-> Slice(t, a, p - 1)]
    ELSE GreedyGroup(t, a, p - 1)

\* the pattern tried at index i with the greedy group
FenceMatchAtGreedy(t, i) ==
    IF MatchAt(t, i, FenceOpen)
    THEN GreedyGroup(t, SkipWs(t, i + Len(FenceOpen)), Len(t) + 1)
    ELSE NoMatch

\* the pattern tried at index i; the greedy whitespace after the opener takes
\* the whole whitespace run (giving some of it back opens no further match)
FenceMatchAt(t, i) ==
    IF MatchAt(t, i, FenceOpen)
    THEN LazyGroup(t, SkipWs(t, i + Len(FenceOpen)), SkipWs(t, i + Len(FenceOpen)))
    ELSE NoMatch

\* re.search of the fence pattern in the content, re.DOTALL: the leftmost match
RECURSIVE FenceSearchFrom(_, _)
FenceSearchFrom(t, i) ==
    IF i > Len(t) THEN NoMatch
    ELSE IF FenceMatchAt(t, i).found THEN FenceMatchAt(t, i)
    ELSE FenceSearchFrom(t, i + 1)

FenceSearch(t) == FenceSearchFrom(t, 1)

\* json_str: group(1) of the match, else the content itself
JsonStr(t) == IF FenceSearch(t).found THEN FenceSearch(t).group ELSE t

---------------------------------------------------------------------------
(* The inputs the model draws from. *)

DotPdf == <<".", "p", "d", "f">>

\* a.pdf, report.PDF, a.pdf.txt, .pdf, a.txt
Filenames ==
    { <<"a">> \o DotPdf,
      <<"r", "e", "p", "o", "r", "t", ".", "P", "D", "F">>,
      <<"a">> \o DotPdf \o <<".", "t", "x", "t">>,
      DotPdf,
      <<"a", ".", "t", "x", "t">> }

\* pdf_path of the script
ScriptPdf == <<"i", "n">> \o DotPdf

\* what the recognizer may read on a page: nothing, whitespace only, two
\* paragraphs, a line that spells a page marker, a row of six numbers
RawPages ==
    { <<>>,
      <<" ", "\n">>,
      <<"a", "\n", "\n", "b">>,
      MarkerHead \o <<"2">> \o MarkerTail,
      <<"1", " ", "2", " ", "3", " ", "4", " ", "5", " ", "6">> }

Docs == UNION {[1..n -> RawPages] : n \in 0..MaxPages}

\* [{"x":1}]
OneRecord == <<"[", "{", "\"", "x", "\"", ":", "1", "}", "]">>

\* completion texts of the remote call: a bare array of one record, the same in
\* a fenced block, an empty array, a fenced empty array, an object, prose, and
\* prose around a fenced array that is cut short
Contents ==
    { OneRecord,
      FenceOpen \o <<"\n">> \o OneRecord \o <<"\n">> \o FenceClose,
      <<"[", "]">>,
      <<"x", " ">> \o FenceOpen \o <<"[", "]">> \o FenceClose,
      <<"{", "}">>,
      <<"x">>,
      FenceOpen \o <<"[", "1", ",">> \o FenceClose }

\* what requests.post, raise_for_status, response.json and the subscripts of the
\* result may do
RemoteOutcomes == {"transport_error", "http_error", "body_not_json", "shape_error", "ok"}

---------------------------------------------------------------------------
(* The decisions of the handlers. *)

\* file.filename.endswith(".pdf") after lowering the name
SuffixOkAnyCase(fn) ==
    LET lower(c) == IF c = "P" THEN "p" ELSE IF c = "D" THEN "d"
                    ELSE IF c = "F" THEN "f" ELSE c
    IN  EndsWith([k \in 1..Len(fn) |-> lower(fn[k])], DotPdf)

\* file.filename.endswith(".pdf")
SuffixOk(fn) == EndsWith(fn, DotPdf)

\* a check that never fires
IsBlankNever(text) == FALSE

\* not extracted_text.strip()
IsBlank(text) == Strip(text) = <<>>

\* json.loads succeeded and isinstance(data, list)
IsList(v) == v.valid /\ v.kind = "array"

\* a check that never fires
NoRecordsNever(v) == FALSE

\* not data
NoRecords(v) == v.n = 0

\* the value of the two except clauses with the partial results kept
ExceptResultPartial(text, pages) == [kind |-> "returned", text |-> text, pages |-> pages]

\* return "", [] of the two except clauses of ocr_pdf
ExceptResult(text, pages) == [kind |-> "returned", text |-> <<>>, pages |-> <<>>]

\* df.head(): the first five rows
HeadRows(lines) == Slice(lines, 1, IF Len(lines) < 5 THEN Len(lines) ELSE 5)

---------------------------------------------------------------------------
(* State. *)

NoBody == [type |-> "none", text |-> <<>>, rows |-> 0, detail |-> ""]
NoData == [valid |-> FALSE, kind |-> "none", n |-> 0]
NoResult == [kind |-> "none", text |-> <<>>, pages |-> <<>>]
NoFail == [kind |-> "none", page |-> 0]

Step(name, page) == [step |-> name, page |-> page]

Http == {"extract", "extract-csv"}

\* the state every entry point starts from, but for mode, filename, doc, pc, arg
Blank ==
    /\ page_num = 0
    /\ full_text = <<>>
    /\ pages_data = <<>>
    /\ remote = "none"
    /\ content = <<>>
    /\ json_str = <<>>
    /\ data = NoData
    /\ status = 0
    /\ body = NoBody
    /\ result = NoResult
    /\ fail = NoFail
    /\ trace = <<>>
    /\ res = <<>>

\* a request arrives at one of the two endpoints, or the script is started
Init ==
    /\ mode \in Http \cup {"script"}
    /\ filename \in (IF mode = "script" THEN {ScriptPdf} ELSE Filenames)
    /\ doc \in Docs
    /\ pc = (IF mode = "script" THEN "raster" ELSE "suffix")
    /\ arg = <<>>
    /\ Blank

\* raise HTTPException(status_code, detail), or an exception no handler catches,
\* which the framework answers with 500
Fails(step, code, kind, page, detail) ==
    /\ status' = code
    /\ body' = [type |-> "error", text |-> <<>>, rows |-> 0, detail |-> detail]
    /\ fail' = [kind |-> kind, page |-> page]
    /\ trace' = trace \o <<step, Step("respond", 0)>>
    /\ pc' = "done"

\* return StreamingResponse(...)
Responds(step, b) ==
    /\ status' = 200
    /\ body' = b
    /\ trace' = trace \o <<step, Step("respond", 0)>>
    /\ pc' = "done"
    /\ UNCHANGED fail

---------------------------------------------------------------------------
(* POST /extract and POST /extract-csv. *)

\* the suffix check that opens both handlers
CheckSuffix ==
    /\ mode \in Http
    /\ pc = "suffix"
    /\ IF SuffixOk(filename)
       THEN /\ pc' = "read"
            /\ trace' = Append(trace, Step("suffix", 0))
            /\ UNCHANGED <<status, body, fail>>
       ELSE Fails(Step("suffix", 0), 400, "suffix", 0, "Only PDF files are supported")
    /\ UNCHANGED <<mode, filename, doc, page_num, full_text, pages_data, remote,
                   content, json_str, data, result, arg, res>>

\* pdf_bytes = await file.read()
ReadUpload ==
    /\ mode \in Http
    /\ pc = "read"
    /\ pc' = "raster"
    /\ trace' = Append(trace, Step("read", 0))
    /\ UNCHANGED <<mode, filename, doc, page_num, full_text, pages_data, remote,
                   content, json_str, data, status, body, result, fail, arg, res>>

\* convert_from_bytes(pdf_bytes, dpi=300): the page images, or an exception that
\* the except clause of ocr_pdf_from_bytes turns into a 500
Rasterize ==
    /\ mode \in Http
    /\ pc = "raster"
    /\ \/ /\ pc' = "ocr"
          /\ trace' = Append(trace, Step("raster", 0))
          /\ UNCHANGED <<status, body, fail>>
       \/ Fails(Step("raster", 0), 500, "raster", 0, "OCR extraction failed")
    /\ UNCHANGED <<mode, filename, doc, page_num, full_text, pages_data, remote,
                   content, json_str, data, result, arg, res>>

\* one turn of the loop of ocr_pdf_from_bytes: recognize the next page, clean
\* its text up and append its block; or the recognizer raises
RecognizePage ==
    /\ mode \in Http
    /\ pc = "ocr"
    /\ page_num < Len(doc)
    /\ page_num' = page_num + 1
    /\ \/ /\ full_text' = full_text \o PageBlock(page_num', Normalize(doc[page_num']))
          /\ trace' = Append(trace, Step("recognize", page_num'))
          /\ UNCHANGED <<pc, status, body, fail>>
       \/ /\ Fails(Step("recognize", page_num'), 500, "recognize", page_num',
                   "OCR extraction failed")
          /\ UNCHANGED full_text
    /\ UNCHANGED <<mode, filename, doc, pages_data, remote, content, json_str,
                   data, result, arg, res>>

\* ocr_pdf_from_bytes returns full_text; the handler checks it for emptiness,
\* and /extract answers with the text
EmptyCheck ==
    /\ mode \in Http
    /\ pc = "ocr"
    /\ page_num = Len(doc)
    /\ IF IsBlank(full_text)
       THEN Fails(Step("check", 0), 500, "empty", 0,
                  "No text could be extracted from the PDF")
       ELSE IF mode = "extract"
       THEN Responds(Step("check", 0),
                     [type |-> "text", text |-> full_text, rows |-> 0, detail |-> ""])
       ELSE /\ pc' = "remote"
            /\ trace' = Append(trace, Step("check", 0))
            /\ UNCHANGED <<status, body, fail>>
    /\ UNCHANGED <<mode, filename, doc, page_num, full_text, pages_data, remote,
                   content, json_str, data, result, arg, res>>

\* parse_text_with_ai: the one remote call and the parse of its completion text
RemoteCall ==
    /\ mode = "extract-csv"
    /\ pc = "remote"
    /\ \E o \in RemoteOutcomes :
         /\ remote' = o
         /\ IF o \in {"transport_error", "http_error", "body_not_json"}
            THEN /\ Fails(Step("remote", 0), 500, o, 0, "AI parsing API call failed")
                 /\ UNCHANGED <<content, json_str, data>>
            ELSE IF o = "shape_error"
            THEN /\ Fails(Step("remote", 0), 500, o, 0, "Internal Server Error")
                 /\ UNCHANGED <<content, json_str, data>>
            ELSE \E c \in Contents :
                   /\ content' = c
                   /\ json_str' = JsonStr(c)
                   /\ data' = JsonLoads(json_str')
                   /\ IF IsList(data')
                      THEN /\ pc' = "csv"
                           /\ trace' = Append(trace, Step("remote", 0))
                           /\ UNCHANGED <<status, body, fail>>
                      ELSE Fails(Step("remote", 0), 500,
                                 IF data'.valid THEN "not_array" ELSE "not_json", 0,
                                 "Failed to parse AI response")
    /\ UNCHANGED <<mode, filename, doc, page_num, full_text, pages_data, result,
                   arg, res>>

\* generate_csv_from_data and the response of /extract-csv; pandas builds the
\* table of the records or raises
GenerateCsv ==
    /\ mode = "extract-csv"
    /\ pc = "csv"
    /\ IF NoRecords(data)
       THEN Fails(Step("csv", 0), 500, "no_records", 0, "No data extracted for CSV")
       ELSE \/ Responds(Step("csv", 0),
                        [type |-> "csv", text |-> <<>>, rows |-> data.n, detail |-> ""])
            \/ Fails(Step("csv", 0), 500, "serialize", 0, "Internal Server Error")
    /\ UNCHANGED <<mode, filename, doc, page_num, full_text, pages_data, remote,
                   content, json_str, data, result, arg, res>>

---------------------------------------------------------------------------
(* The script entry point ocr_pdf. *)

\* an exception reaches the two except clauses of ocr_pdf
ScriptFails(step, kind, page) ==
    /\ result' = ExceptResult(full_text', pages_data')
    /\ fail' = [kind |-> kind, page |-> page]
    /\ trace' = Append(trace, step)
    /\ pc' = "done"

\* convert_from_path(pdf_path, dpi=300): the page images, no such file, or
\* another exception
ScriptRasterize ==
    /\ mode = "script"
    /\ pc = "raster"
    /\ UNCHANGED <<full_text, pages_data>>
    /\ \/ /\ pc' = "ocr"
          /\ trace' = Append(trace, Step("raster", 0))
          /\ UNCHANGED <<result, fail>>
       \/ ScriptFails(Step("raster", 0), "not_found", 0)
       \/ ScriptFails(Step("raster", 0), "raster", 0)
    /\ UNCHANGED <<mode, filename, doc, page_num, remote, content, json_str, data,
                   status, body, arg, res>>

\* one turn of the loop of ocr_pdf: recognize the next page, clean its text up,
\* append its block, pick its table lines and, if there are any, have pandas
\* parse them into a preview; the recognizer or the parse may raise
ScriptPage ==
    /\ mode = "script"
    /\ pc = "ocr"
    /\ page_num < Len(doc)
    /\ page_num' = page_num + 1
    /\ LET page_text == Normalize(doc[page_num'])
           table_lines == TableLines(page_text)
       IN  \/ /\ UNCHANGED <<full_text, pages_data>>
              /\ ScriptFails(Step("recognize", page_num'), "recognize", page_num')
           \/ /\ full_text' = full_text \o PageBlock(page_num', page_text)
              /\ IF table_lines = <<>>
                 THEN /\ trace' = Append(trace, Step("recognize", page_num'))
                      /\ UNCHANGED <<pages_data, pc, result, fail>>
                 ELSE \/ /\ pages_data' = Append(pages_data,
                                [page |-> page_num',
                                 table_preview |-> HeadRows(table_lines)])
                         /\ trace' = Append(trace, Step("recognize", page_num'))
                         /\ UNCHANGED <<pc, result, fail>>
                      \/ /\ UNCHANGED pages_data
                         /\ ScriptFails(Step("recognize", page_num'), "table_parse",
                                        page_num')
    /\ UNCHANGED <<mode, filename, doc, remote, content, json_str, data, status,
                   body, arg, res>>

\* return full_text, pages_data
ScriptReturn ==
    /\ mode = "script"
    /\ pc = "ocr"
    /\ page_num = Len(doc)
    /\ result' = [kind |-> "returned", text |-> full_text, pages |-> pages_data]
    /\ trace' = Append(trace, Step("return", 0))
    /\ pc' = "done"
    /\ UNCHANGED <<mode, filename, doc, page_num, full_text, pages_data, remote,
                   content, json_str, data, status, body, fail, arg, res>>

Next ==
    \/ CheckSuffix
    \/ ReadUpload
    \/ Rasterize
    \/ RecognizePage
    \/ EmptyCheck
    \/ RemoteCall
    \/ GenerateCsv
    \/ ScriptRasterize
    \/ ScriptPage
    \/ ScriptReturn

Spec == Init /\ [][Next]_vars

---------------------------------------------------------------------------
(* The text functions applied on their own to every input of a bounded set. *)

Pure ==
    /\ mode = "pure"
    /\ filename = <<>>
    /\ doc = <<>>
    /\ pc = "arg"
    /\ Blank

UnchangedButRes ==
    UNCHANGED <<mode, filename, doc, page_num, full_text, pages_data, remote,
                content, json_str, data, status, body, result, fail, trace, arg>>

\* raw page texts: every text of at most MaxLen characters
RawTexts == TextsUpTo({"\n", " ", "\t", "a"}, MaxLen)

InitNorm == Pure /\ arg \in RawTexts

\* the three cleanup lines of the OCR loop
ApplyNormalize ==
    /\ pc = "arg"
    /\ res' = Normalize(arg)
    /\ pc' = "applied"
    /\ UnchangedButRes

NextNorm == ApplyNormalize

SpecNorm == InitNorm /\ [][NextNorm]_vars

\* the tokens of a line: a word, a number, a number with a comma
Tokens == {<<"a">>, <<"7">>, <<"1", ",", "0">>}

\* the tokens of ts, each followed by sep
RECURSIVE Joined(_, _)
Joined(ts, sep) ==
    IF ts = <<>> THEN <<>> ELSE Head(ts) \o sep \o Joined(Tail(ts), sep)

\* lines of at most MaxTokens tokens: separated by one space, or by a space and
\* a tab with whitespace around the line
Lines ==
    LET TokenSeqs == UNION {[1..k -> Tokens] : k \in 0..MaxTokens}
    IN  {RStrip(Joined(ts, <<" ">>)) : ts \in TokenSeqs}
          \cup {<<" ">> \o Joined(ts, <<" ", "\t">>) : ts \in TokenSeqs}

InitTable == Pure /\ arg \in Lines

\* the condition of the list comprehension that picks the table lines
ApplyIsTableLine ==
    /\ pc = "arg"
    /\ res' = IsTableLine(arg)
    /\ pc' = "applied"
    /\ UnchangedButRes

NextTable == ApplyIsTableLine

SpecTable == InitTable /\ [][NextTable]_vars

\* completion texts: text before, an opening fence or none, whitespace, a body,
\* whitespace, a closing fence or none, text after
AllContents ==
    LET Pre == {<<>>, <<"x", " ">>, <<"[", "1", "]">>}
        Open == {<<>>, FenceOpen}
        W1 == {<<>>, <<"\n">>}
        Body == {<<>>, <<"[", "]">>, <<"[", "1", "]">>, <<"[", "1", ",", " ", "1", "]">>,
                 <<"1">>, <<"{", "}">>, <<"x">>, <<"[", "1">>, OneRecord}
        W2 == {<<>>, <<" ", "\n">>}
        Close == {<<>>, FenceClose}
        Post == {<<>>, <<"x">>, <<" ", "x", " ">> \o FenceClose}
    IN  {a \o b \o c \o d \o e \o f \o g :
            a \in Pre, b \in Open, c \in W1, d \in Body, e \in W2, f \in Close, g \in Post}

InitParse ==
    /\ mode = "pure"
    /\ filename = <<>>
    /\ doc = <<>>
    /\ pc = "content"
    /\ arg = <<>>
    /\ content \in AllContents
    /\ page_num = 0
    /\ full_text = <<>>
    /\ pages_data = <<>>
    /\ remote = "ok"
    /\ json_str = <<>>
    /\ data = NoData
    /\ status = 0
    /\ body = NoBody
    /\ result = NoResult
    /\ fail = NoFail
    /\ trace = <<>>
    /\ res = <<>>

\* parse_text_with_ai from the completion text on: the fenced block or the
\* whole text, json.loads, the isinstance check, the two except clauses
ApplyParse ==
    /\ pc = "content"
    /\ json_str' = JsonStr(content)
    /\ data' = JsonLoads(json_str')
    /\ IF IsList(data')
       THEN /\ pc' = "returned"
            /\ UNCHANGED <<status, body>>
       ELSE /\ pc' = "raised"
            /\ status' = 500
            /\ body' = [type |-> "error", text |-> <<>>, rows |-> 0,
                        detail |-> "Failed to parse AI response"]
    /\ UNCHANGED <<mode, filename, doc, page_num, full_text, pages_data, remote,
                   content, result, fail, trace, arg, res>>

NextParse == ApplyParse

SpecParse == InitParse /\ [][NextParse]_vars

---------------------------------------------------------------------------
(* Vocabulary of the properties. *)

InTrace(name) == \E i \in 1..Len(trace) : trace[i].step = name

Count(name) == Cardinality({i \in 1..Len(trace) : trace[i].step = name})

NumPages == Len(doc)

\* the upload's name ends with the lowercase suffix
HasPdfSuffix ==
    /\ Len(filename) >= 4
    /\ filename[Len(filename) - 3] = "."
    /\ filename[Len(filename) - 2] = "p"
    /\ filename[Len(filename) - 1] = "d"
    /\ filename[Len(filename)] = "f"

ReportPDF == <<"r", "e", "p", "o", "r", "t", ".", "P", "D", "F">>

\* the last digit of the page marker that starts at index i, 0 if none starts there
MarkerEndAt(t, i) ==
    IF MatchAt(t, i, MarkerHead)
    THEN LET d == RunEnd(t, i + Len(MarkerHead), Digit)
         IN  IF d >= i + Len(MarkerHead) /\ MatchAt(t, d + 1, MarkerTail) THEN d ELSE 0
    ELSE 0

\* the numbers of the page markers that occur in t, in order of occurrence
RECURSIVE MarkerLabelsFrom(_, _)
MarkerLabelsFrom(t, i) ==
    IF i > Len(t) THEN <<>>
    ELSE IF MarkerEndAt(t, i) # 0
         THEN <<Slice(t, i + Len(MarkerHead), MarkerEndAt(t, i))>>
                  \o MarkerLabelsFrom(t, i + 1)
         ELSE MarkerLabelsFrom(t, i + 1)

MarkerLabels(t) == MarkerLabelsFrom(t, 1)

\* a text is empty or whitespace only
AllWhitespace(t) == \A i \in 1..Len(t) : t[i] \in Whitespace

\* the blocks of pages 1..n, one after the other
RECURSIVE BlocksUpTo(_)
BlocksUpTo(n) ==
    IF n = 0 THEN <<>>
    ELSE BlocksUpTo(n - 1) \o <<"\n", "-", "-", "-", " ", "P", "a", "g", "e", " ">>
           \o DecimalStr(n) \o <<" ", "-", "-", "-", "\n">>
           \o Strip(CollapseWs(doc[n])) \o <<"\n">>

\* the number of marker occurrences inside the cleaned texts of pages 1..n
RECURSIVE InnerMarkers(_)
InnerMarkers(n) ==
    IF n = 0 THEN 0
    ELSE InnerMarkers(n - 1) + Len(MarkerLabels(Strip(CollapseWs(doc[n]))))

\* the OCR step has returned its text
OcrReturned ==
    \/ mode \in Http /\ InTrace("check")
    \/ mode = "script" /\ result.kind = "returned" /\ fail.kind = "none"

\* the text it returned
OcrText == IF mode = "script" THEN result.text ELSE full_text

\* a token starts at every character that is no whitespace and follows
\* whitespace or the start of the line
TokenCount(t) ==
    Cardinality({i \in 1..Len(t) :
                    t[i] \notin Whitespace /\ (i = 1 \/ t[i - 1] \in Whitespace)})

HasDigit(t) == \E i \in 1..Len(t) : t[i] \in Digit

\* the positions of the opening fences, and of the closing fences after an opener at i
Openers(t) == {i \in 1..Len(t) : MatchAt(t, i, FenceOpen)}
Closers(t, i) == {q \in (i + Len(FenceOpen))..Len(t) : MatchAt(t, q, FenceClose)}

Min(S) == CHOOSE x \in S : \A y \in S : x <= y

\* the text holds a complete fenced block
HasBlock(t) == \E i \in Openers(t) : Closers(t, i) # {}

\* the text between the first opener and the first closing fence after it
Interior(t) ==
    LET i == Min(Openers(t))
    IN  Slice(t, i + Len(FenceOpen), Min(Closers(t, i)) - 1)

\* the previews of the pages 1..n that have table lines
RECURSIVE PreviewsUpTo(_)
PreviewsUpTo(n) ==
    IF n = 0 THEN <<>>
    ELSE LET lines == SelectSeq(SplitLines(Normalize(doc[n])),
                                LAMBDA l : HasDigit(l) /\ TokenCount(l) > 5)
         IN  IF lines = <<>> THEN PreviewsUpTo(n - 1)
             ELSE Append(PreviewsUpTo(n - 1),
                         [page |-> n, table_preview |-> HeadRows(lines)])

\* the step that may follow step a in one /extract-csv request
Follows(a, b) ==
    CASE a.step = "suffix" -> b.step \in {"read", "respond"}
      [] a.step = "read" -> b.step = "raster"
      [] a.step = "raster" ->
            \/ b.step = "respond"
            \/ b = Step("recognize", 1) /\ NumPages >= 1
            \/ b.step = "check" /\ NumPages = 0
      [] a.step = "recognize" ->
            \/ b.step = "respond"
            \/ b = Step("recognize", a.page + 1) /\ a.page < NumPages
            \/ b.step = "check" /\ a.page = NumPages
      [] a.step = "check" -> b.step \in {"remote", "respond"}
      [] a.step = "remote" -> b.step \in {"csv", "respond"}
      [] a.step = "csv" -> b.step = "respond"
      [] OTHER -> FALSE

---------------------------------------------------------------------------
(* The claims. *)

\* C1: on both endpoints an upload whose name does not end with the exact
\* lowercase suffix ".pdf" is answered with 400, and in that request nothing
\* follows the suffix check: the upload is not read, and the rasterizer, the
\* recognizer and the remote call are never invoked.
C1_BadSuffixRejected ==
    (mode \in Http /\ ~HasPdfSuffix) =>
        /\ \A i \in 1..Len(trace) : trace[i].step \in {"suffix", "respond"}
        /\ page_num = 0 /\ full_text = <<>> /\ remote = "none"
        /\ pc \in {"suffix", "done"}
        /\ pc = "done" => status = 400 /\ body.type = "error"

C1_Witness ==
    /\ mode = "extract-csv"
    /\ filename = ReportPDF
    /\ pc = "done"
    /\ status = 400

\* C2 (as claimed): for a valid .pdf upload whose recognized text is empty or
\* whitespace-only on every page, whatever the number of pages, both endpoints
\* end the request with 500 and never with 200.
C2_BlankPagesGive500 ==
    ( /\ mode \in Http
      /\ HasPdfSuffix
      /\ pc = "done"
      /\ fail.kind \notin {"raster", "recognize"}
      /\ \A k \in 1..NumPages : AllWhitespace(doc[k]) )
    => status = 500

\* C3: when rasterization yields zero pages, ocr_pdf_from_bytes returns the
\* empty string, both endpoints answer 500, and on /extract-csv the remote call
\* is not made.
C3_ZeroPagesGive500 ==
    (mode \in Http /\ NumPages = 0 /\ InTrace("check")) =>
        /\ full_text = <<>>
        /\ pc = "done"
        /\ status = 500
        /\ ~InTrace("remote")
        /\ remote = "none"

C3_Witness ==
    /\ mode = "extract-csv"
    /\ NumPages = 0
    /\ InTrace("check")
    /\ status = 500

C5_CsvFailuresAre500 ==
    (mode = "extract-csv" /\ pc = "done" /\ InTrace("remote")) =>
        LET v == JsonLoads(json_str)
        IN  /\ remote # "ok" => status = 500
            /\ (remote = "ok" /\ ~v.valid) => status = 500
            /\ (remote = "ok" /\ v.valid /\ v.kind # "array") => status = 500
            /\ (remote = "ok" /\ v.kind = "array" /\ v.n = 0) => status = 500
            /\ status = 500 => body.type = "error"
            /\ status \in {200, 500}
            /\ status = 200 =>
                  /\ remote = "ok"
                  /\ v.valid /\ v.kind = "array" /\ v.n > 0
                  /\ fail.kind = "none"
                  /\ InTrace("csv")
                  /\ body.type = "csv" /\ body.rows = v.n

C5_Witness ==
    /\ mode = "extract-csv"
    /\ pc = "done"
    /\ remote = "ok"
    /\ content = FenceOpen \o <<"[", "1", ",">> \o FenceClose
    /\ status = 500

\* C6: within one /extract-csv request the steps happen in one fixed order,
\* each at most once: suffix check, read, rasterization, recognition of pages
\* 1..N in page order, empty-text check, remote call, serialization, response.
\* The remote call is issued at most once and only after OCR succeeded with
\* non-empty text; after the first failing step only the response follows; and
\* every request ends with exactly one response, 200, 400 or 500.
C6_FixedOrder ==
    mode = "extract-csv" =>
        /\ trace # <<>> => trace[1].step = "suffix"
        /\ \A i \in 1..(Len(trace) - 1) : Follows(trace[i], trace[i + 1])
        /\ \A n \in {"suffix", "read", "raster", "check", "remote", "csv", "respond"} :
              Count(n) <= 1
        /\ InTrace("remote") =>
              /\ InTrace("check")
              /\ \A k \in 1..NumPages :
                    Cardinality({i \in 1..Len(trace) :
                                    trace[i] = Step("recognize", k)}) = 1
              /\ ~AllWhitespace(full_text)
        /\ fail.kind # "none" =>
              /\ pc = "done"
              /\ status \in {400, 500}
              /\ trace[Len(trace)].step = "respond"
              /\ \A i \in 1..Len(trace) : trace[i].step = "respond" => i = Len(trace)
        /\ pc = "done" <=> Count("respond") = 1
        /\ pc = "done" => status \in {200, 400, 500}
        /\ pc # "done" => status = 0

C6_Witness ==
    /\ mode = "extract-csv"
    /\ NumPages = 2
    /\ pc = "done"
    /\ status = 200
    /\ trace = <<Step("suffix", 0), Step("read", 0), Step("raster", 0),
                 Step("recognize", 1), Step("recognize", 2), Step("check", 0),
                 Step("remote", 0), Step("csv", 0), Step("respond", 0)>>

\* C7: ocr_pdf never raises: when rasterization (a missing file included),
\* recognition or the table parse fails, on whatever page, it returns the empty
\* results, so the text and previews built for the earlier pages are not
\* returned; only when every page succeeds does it return the full text and
\* the per-page previews.
C7_ScriptReturnsEmptyOnFailure ==
    (mode = "script" /\ pc = "done") =>
        /\ result.kind = "returned"
        /\ fail.kind # "none" => result.text = <<>> /\ result.pages = <<>>
        /\ fail.kind = "none" =>
              /\ result.text = BlocksUpTo(NumPages)
              /\ result.pages = PreviewsUpTo(NumPages)

C7_Witness ==
    /\ mode = "script"
    /\ pc = "done"
    /\ fail = [kind |-> "table_parse", page |-> 2]
    /\ Len(pages_data) = 1
    /\ full_text # <<>>
    /\ result = [kind |-> "returned", text |-> <<>>, pages |-> <<>>]

\* C8: when the completion text holds a block opened by the json fence and
\* closed by a fence, only the interior of the first such block, surrounding
\* whitespace removed, is parsed and the text outside it is ignored; when it
\* holds no complete block the whole text is parsed verbatim.  Either way the
\* value is returned only if it is a JSON array; any other JSON value and any
\* text that is not JSON end in a 500.
C8_FencedInteriorParsed ==
    pc \in {"returned", "raised"} =>
        /\ HasBlock(content) => json_str = Strip(Interior(content))
        /\ ~HasBlock(content) => json_str = content
        /\ pc = "returned" <=>
              (JsonLoads(json_str).valid /\ JsonLoads(json_str).kind = "array")
        /\ pc = "returned" => status = 0 /\ data.kind = "array"
        /\ pc = "raised" => status = 500

C8_Witness ==
    /\ pc = "returned"
    /\ content = <<"[", "1", "]">> \o FenceOpen \o <<"\n">> \o OneRecord
                   \o <<" ", "\n">> \o FenceClose \o <<" ", "x", " ">> \o FenceClose
    /\ json_str = OneRecord
    /\ data.n = 1

\* C9: for every raw page text the cleanup (a), (b), (c) gives what (b) and (c)
\* alone give; the cleaned text holds no newline, no two adjacent whitespace
\* characters and no leading or trailing whitespace, and cleaning it again
\* leaves it unchanged.
C9_StepAIsNoOp ==
    pc = "applied" =>
        /\ res = Strip(CollapseWs(arg))
        /\ \A i \in 1..Len(res) : res[i] # "\n"
        /\ \A i \in 1..(Len(res) - 1) :
              ~(res[i] \in Whitespace /\ res[i + 1] \in Whitespace)
        /\ res # <<>> => res[1] \notin Whitespace /\ res[Len(res)] \notin Whitespace
        /\ Normalize(res) = res

C9_Witness ==
    /\ pc = "applied"
    /\ arg = <<"a", "\n", "\t", "\n", "a">>
    /\ CollapseBlankLines(arg) = <<"a", "\n", "\n", "a">>
    /\ res = <<"a", " ", "a">>

\* C10: the table-line heuristic flags a line exactly when the line holds a
\* digit and splits into strictly more than five whitespace-separated tokens:
\* five tokens with digits are not flagged, six are, and a line without a digit
\* never is.
C10_TableLineStrictlyMoreThanFive ==
    pc = "applied" => (res <=> (HasDigit(arg) /\ TokenCount(arg) >= 6))

C10_Witness ==
    /\ pc = "applied"
    /\ HasDigit(arg)
    /\ TokenCount(arg) = 5
    /\ res = FALSE

===========================================================================
